---- MODULE Spec2Model ----
(***************************************************************************)
(* Model of src/src/lib/articles.ts: importArticle and getAllArticles.     *)
(*                                                                         *)
(* The content root (./src/app/articles) is a sequence of directory        *)
(* entries.  An entry is a sub-directory holding page.mdx (shape "page"),  *)
(* a sub-directory holding nothing (shape "empty"), a sub-directory whose  *)
(* page.mdx lies one level deeper, in sub/ (shape "nested"), or a plain    *)
(* file (shape "file").  The module a page.mdx evaluates to is drawn from  *)
(* a small catalogue of modules (Modules).                                 *)
(*                                                                         *)
(* One call of getAllArticles is a sequence of steps separated by its two  *)
(* awaits: the glob, then Promise.all over the per-file importArticle      *)
(* promises, then the synchronous filter and sort.  The modules import()   *)
(* has loaded stay in the module map of the process from call to call.     *)
(***************************************************************************)
EXTENDS Integers, Sequences, FiniteSets, TLC

VARIABLES
    fs,               \* the content root: [readable, entries]
    pc,               \* position of the getAllArticles call
    args,             \* the arguments the call was made with
    includePrivate,   \* the call's parameter
    articleFilenames, \* result of the glob (line 31)
    loads,            \* the promises importArticle returned, by index (line 35)
    settleOrder,      \* indices of loads in the order they settled
    result,           \* value the call returned
    lastResult,       \* outcome of the previous call, and its flag
    moduleMap         \* the modules the process has loaded, by path (line 19)

vars == <<fs, pc, args, includePrivate, articleFilenames, loads, settleOrder,
          result, lastResult, moduleMap>>

----------------------------------------------------------------------------
(* Bounds *)

MaxUnits == 3

----------------------------------------------------------------------------
(* Strings are sequences of one-character strings. *)

SlashPageMdx == <<"/", "p", "a", "g", "e", ".", "m", "d", "x">>
DotMdx == <<".", "m", "d", "x">>
PageMdx == <<"p", "a", "g", "e", ".", "m", "d", "x">>
SlashSub == <<"/", "s", "u", "b">>

\* Names of sub-directories of the content root.
DirNames ==
    << <<"a">>,
       <<"p", "a", "g", "e">>,
       <<"b", ".", "m", "d", "x">>,
       <<".", "c">> >>

Min(S) == CHOOSE x \in S : \A y \in S : x <= y

----------------------------------------------------------------------------
(* Numbers: the result of +new Date(..) is a number or NaN. *)

NaN == [nan |-> TRUE, v |-> 0]
Num(n) == [nan |-> FALSE, v |-> n]
Minus(x, y) == IF x.nan \/ y.nan THEN NaN ELSE Num(x.v - y.v)

\* +new Date(s) for the date strings of the catalogue, in days since the
\* epoch (the millisecond value is this times 86400000; order and equality
\* are the same).  A date-only ISO string is parsed as UTC midnight, so the
\* two spellings of 2025-01-10 denote the same instant.  Any other string,
\* and undefined, give an Invalid Date, whose number is NaN.
DateParse(s) ==
    CASE s = "2024-01-01" -> Num(19723)
      [] s = "2025-01-10" -> Num(20098)
      [] s = "2025-01-10T00:00:00.000Z" -> Num(20098)
      [] s = "2025-04-24" -> Num(20202)
      [] OTHER -> NaN

\* +new Date(a.date): a.date is undefined when the object has no date.
TimeOf(a) == IF "date" \in DOMAIN a THEN DateParse(a.date) ELSE NaN

----------------------------------------------------------------------------
(* The modules page.mdx files evaluate to. *)

EmptyObject == [k \in {} |-> TRUE]

Modules ==
    << \* 1: public (isPrivate absent), oldest
       [outcome |-> "ok", hasArticle |-> TRUE,
        article |-> [title |-> "T1", date |-> "2024-01-01", isFeatured |-> TRUE]],
       \* 2: public (isPrivate false)
       [outcome |-> "ok", hasArticle |-> TRUE,
        article |-> [title |-> "T2", date |-> "2025-01-10", isFeatured |-> TRUE,
                     isPrivate |-> FALSE]],
       \* 3: private, newest
       [outcome |-> "ok", hasArticle |-> TRUE,
        article |-> [title |-> "T3", description |-> "D3", author |-> "A3",
                     date |-> "2025-04-24", isFeatured |-> TRUE,
                     isPrivate |-> TRUE]],
       \* 4: public, same instant as 2 under another spelling
       [outcome |-> "ok", hasArticle |-> TRUE,
        article |-> [title |-> "T4", date |-> "2025-01-10T00:00:00.000Z",
                     isFeatured |-> FALSE]],
       \* 5: metadata without date
       [outcome |-> "ok", hasArticle |-> TRUE,
        article |-> [title |-> "T5", isFeatured |-> FALSE]],
       \* 6: module without an `article` export
       [outcome |-> "ok", hasArticle |-> FALSE, article |-> EmptyObject],
       \* 7: the dynamic import rejects
       [outcome |-> "fail", hasArticle |-> FALSE, article |-> EmptyObject],
       \* 8: metadata that declares a slug of its own
       [outcome |-> "ok", hasArticle |-> TRUE,
        article |-> [title |-> "T8", date |-> "2024-01-01", isFeatured |-> TRUE,
                     slug |-> <<"x">>]] >>

ModuleIds == 1..Len(Modules)

----------------------------------------------------------------------------
(* importArticle, lines 16-28 *)

\* articleFilename.replace(/(\/page)?\.mdx$/, ''): the leftmost position
\* from which the rest of the string is "/page.mdx" or ".mdx" starts the
\* match, which runs to the end of the string; the match is removed.  A
\* string without a match is returned as it is.
\* Variant: the pattern without its end anchor, /(\/page)?\.mdx/.
Replace_Unanchored(articleFilename) ==
    LET n == Len(articleFilename)
        At(i, t) == i + Len(t) - 1 <= n
                    /\ SubSeq(articleFilename, i, i + Len(t) - 1) = t
        M == {i \in 1..n : At(i, SlashPageMdx) \/ At(i, DotMdx)}
        i0 == Min(M)
        len == IF At(i0, SlashPageMdx) THEN Len(SlashPageMdx) ELSE Len(DotMdx)
    IN  IF M = {} THEN articleFilename
        ELSE SubSeq(articleFilename, 1, i0 - 1)
                 \o SubSeq(articleFilename, i0 + len, n)

Replace(articleFilename) ==
    LET n == Len(articleFilename)
        M == {i \in 1..n :
                SubSeq(articleFilename, i, n) \in {SlashPageMdx, DotMdx}}
    IN  IF M = {} THEN articleFilename
        ELSE SubSeq(articleFilename, 1, Min(M) - 1)

\* { ...base, ...obj } : the properties of obj, and those of base that obj
\* does not have.
Spread(base, obj) ==
    [k \in DOMAIN base \cup DOMAIN obj |->
        IF k \in DOMAIN obj THEN obj[k] ELSE base[k]]

\* The path, relative to the content root, of the file an entry holds.
PathOf(e) ==
    CASE e.shape = "page" -> e.name \o SlashPageMdx
      [] e.shape = "nested" -> e.name \o SlashSub \o SlashPageMdx
      [] OTHER -> e.name

\* The module `../app/articles/${articleFilename}` resolves to.
ModuleIdAt(root, articleFilename) ==
    LET E == {i \in 1..Len(root.entries) :
                /\ root.entries[i].shape # "empty"
                /\ PathOf(root.entries[i]) = articleFilename}
    IN  root.entries[Min(E)].module
ModuleAt(root, articleFilename) == Modules[ModuleIdAt(root, articleFilename)]

\* import() keeps every module it has loaded in the module map of the
\* process: importing a specifier again gives the module loaded the first
\* time, whatever the file holds by then.  An import that failed is not
\* kept, and is attempted again.
NoModules == [p \in {} |-> 0]
\* Where import() looks articleFilename up: in the module map when the path
\* is there, and in the content root otherwise.  What it finds is given as
\* a root that holds the module as the one file of that path.
Linked(root, map, articleFilename) ==
    [readable |-> TRUE,
     entries |-> <<[name |-> articleFilename, shape |-> "file",
                    module |-> IF articleFilename \in DOMAIN map
                               THEN map[articleFilename]
                               ELSE ModuleIdAt(root, articleFilename)]>>]
\* The module map after the import of articleFilename, found in root,
\* settled as p.
Keep(map, root, articleFilename, p) ==
    IF p.state = "fulfilled" /\ articleFilename \notin DOMAIN map
    THEN [f \in DOMAIN map \cup {articleFilename} |->
            IF f \in DOMAIN map THEN map[f] ELSE ModuleIdAt(root, articleFilename)]
    ELSE map

Pending == [state |-> "pending", value |-> EmptyObject]
Rejected == [state |-> "rejected", value |-> EmptyObject]
Fulfilled(v) == [state |-> "fulfilled", value |-> v]

\* The promise importArticle(articleFilename) settles to.  `let { article }`
\* of a module without that export is undefined, and spreading undefined
\* adds no property.
\* Variant: a failed import is caught and yields a record with the slug alone.
importArticle_CatchAll(root, articleFilename) ==
    LET m == ModuleAt(root, articleFilename)
        article == IF m.hasArticle THEN m.article ELSE EmptyObject
    IN  Fulfilled(Spread([slug |-> Replace(articleFilename)], article))

\* Variant: isPrivate is given the default false when not declared.
importArticle_Defaults(root, articleFilename) ==
    LET m == ModuleAt(root, articleFilename)
        article == IF m.hasArticle THEN m.article ELSE EmptyObject
    IN  IF m.outcome = "fail" THEN Rejected
        ELSE Fulfilled(Spread([slug |-> Replace(articleFilename),
                               isPrivate |-> FALSE], article))

importArticle(root, articleFilename) ==
    LET m == ModuleAt(root, articleFilename)
        article == IF m.hasArticle THEN m.article ELSE EmptyObject
    IN  IF m.outcome = "fail" THEN Rejected
        ELSE Fulfilled(Spread([slug |-> Replace(articleFilename)], article))

----------------------------------------------------------------------------
(* getAllArticles, lines 30-43 *)

\* Variant: the pattern '**/page.mdx', which matches at any depth.
RECURSIVE Glob_AnyDepth(_)
Glob_AnyDepth(entries) ==
    IF entries = <<>> THEN <<>>
    ELSE LET e == Head(entries)
         IN  (IF e.shape = "empty" \/ Head(e.name) = "."
                 \/ (e.shape = "file" /\ e.name # PageMdx)
              THEN <<>> ELSE <<PathOf(e)>>)
             \o Glob_AnyDepth(Tail(entries))
\* Variant: the pattern '[a-z]*/page.mdx'.
RECURSIVE Glob_LowerCase(_)
Glob_LowerCase(entries) ==
    IF entries = <<>> THEN <<>>
    ELSE LET e == Head(entries)
         IN  (IF e.shape = "page" /\ Head(e.name) \notin {".", "A"}
              THEN <<e.name \o SlashPageMdx>> ELSE <<>>)
             \o Glob_LowerCase(Tail(entries))

\* The paths glob('*/page.mdx', { cwd }) matches: one per sub-directory
\* holding page.mdx directly, listed here in the order of the root's
\* entries.  The pattern has two segments, so a file of the root and a file
\* two levels down do not match.  With the default options (dot: false)
\* `*` does not match a name that begins with a dot.
RECURSIVE Glob(_)
Glob(entries) ==
    IF entries = <<>> THEN <<>>
    ELSE LET e == Head(entries)
         IN  (IF e.shape = "page" /\ Head(e.name) # "."
              THEN <<e.name \o SlashPageMdx>> ELSE <<>>)
             \o Glob(Tail(entries))

\* The orders in which the glob may deliver the matched paths: the
\* sub-directories are scanned concurrently and a path is delivered when the
\* scan of its directory completes, so any order of the paths can come out.
Orders(paths) ==
    {[i \in 1..Len(paths) |-> paths[p[i]]] : p \in Permutations(1..Len(paths))}

\* Variant: a join that is rejected only when every input is rejected.
AllRejected_Every(ps) ==
    Len(ps) > 0 /\ \A i \in 1..Len(ps) : ps[i].state = "rejected"

\* Promise.all: rejected as soon as one input is rejected, fulfilled when
\* all inputs are fulfilled, with the values in the order of the inputs.
\* Variant: a join like Promise.allSettled followed by a check, rejected
\* only once every input has settled.
AllRejected_WhenSettled(ps) ==
    /\ \A i \in 1..Len(ps) : ps[i].state # "pending"
    /\ \E i \in 1..Len(ps) : ps[i].state = "rejected"
AllRejected(ps) == \E i \in 1..Len(ps) : ps[i].state = "rejected"
\* Variant: a join that is fulfilled by its last input, so never for none.
AllFulfilled_NonEmpty(ps) ==
    Len(ps) > 0 /\ \A i \in 1..Len(ps) : ps[i].state = "fulfilled"
\* Variant: the values collected in the order the inputs settled.
AllValues_ByCompletion(ps, order) ==
    [k \in 1..Len(order) |-> ps[order[k]].value]

\* Variant: a join fulfilled as long as no input is rejected, pending or not.
AllFulfilled_NoneRejected(ps) == \A i \in 1..Len(ps) : ps[i].state # "rejected"
AllFulfilled(ps) == \A i \in 1..Len(ps) : ps[i].state = "fulfilled"
AllValues(ps, order) == [i \in 1..Len(ps) |-> ps[i].value]

\* !article.isPrivate
NotPrivate(article) ==
    ~("isPrivate" \in DOMAIN article /\ article.isPrivate = TRUE)

\* Variant: a.isPrivate === false
StrictlyPublic(article) ==
    "isPrivate" \in DOMAIN article /\ article.isPrivate = FALSE
Filter_StrictFalse(articles, ip) ==
    IF ip THEN articles ELSE SelectSeq(articles, StrictlyPublic)
\* Variant: the flag is ignored.
Filter_Always(articles, ip) == SelectSeq(articles, NotPrivate)
\* Variant: nothing is removed, whatever the flag.
Filter_Never(articles, ip) == articles

\* includePrivate ? articles : articles.filter(a => !a.isPrivate)
Filter(articles, ip) ==
    IF ip THEN articles ELSE SelectSeq(articles, NotPrivate)

\* (a, z) => +new Date(z.date) - +new Date(a.date)
comparefn(a, z) == Minus(TimeOf(z), TimeOf(a))

\* Array.prototype.sort calls comparefn and reads NaN as +0.
SortCompare(x, y) ==
    LET v == comparefn(x, y) IN IF v.nan THEN 0 ELSE v.v

\* Array.prototype.sort on an array shorter than 64 elements, as the engine
\* does it: the initial run (reversed when strictly descending) is extended
\* to the whole array by binary insertion.  For a comparator that is a
\* consistent order this is the stable sort; for one that is not (a NaN
\* against two different dates) it is what the engine produces.
RECURSIVE RunEnd(_, _, _)
RunEnd(w, descending, idx) ==
    IF idx > Len(w) THEN idx - 1
    ELSE LET order == SortCompare(w[idx], w[idx - 1])
         IN  IF (descending /\ order >= 0) \/ (~descending /\ order < 0)
             THEN idx - 1
             ELSE RunEnd(w, descending, idx + 1)

Reverse(w) == [i \in 1..Len(w) |-> w[Len(w) + 1 - i]]

\* The array with its initial run made ascending, and the run's length.
CountAndMakeRun(w) ==
    LET descending == SortCompare(w[2], w[1]) < 0
        run == RunEnd(w, descending, 3)
    IN  [run |-> run,
         work |-> IF descending
                  THEN Reverse(SubSeq(w, 1, run)) \o SubSeq(w, run + 1, Len(w))
                  ELSE w]

\* Variant: the pivot goes before the elements it compares equal to.
RECURSIVE BinarySearch_Before(_, _, _, _)
BinarySearch_Before(w, pivot, left, right) ==
    IF left >= right THEN left
    ELSE LET mid == left + ((right - left) \div 2)
         IN  IF SortCompare(pivot, w[mid]) <= 0
             THEN BinarySearch_Before(w, pivot, left, mid)
             ELSE BinarySearch_Before(w, pivot, mid + 1, right)

RECURSIVE BinarySearch(_, _, _, _)
BinarySearch(w, pivot, left, right) ==
    IF left >= right THEN left
    ELSE LET mid == left + ((right - left) \div 2)
         IN  IF SortCompare(pivot, w[mid]) < 0
             THEN BinarySearch(w, pivot, left, mid)
             ELSE BinarySearch(w, pivot, mid + 1, right)

RECURSIVE BinaryInsertionSort(_, _)
BinaryInsertionSort(w, start) ==
    IF start > Len(w) THEN w
    ELSE LET pivot == w[start]
             left == BinarySearch(w, pivot, 1, start)
         IN  BinaryInsertionSort(
                 SubSeq(w, 1, left - 1) \o <<pivot>> \o SubSeq(w, left, start - 1)
                     \o SubSeq(w, start + 1, Len(w)),
                 start + 1)

\* filteredArticles.sort(comparefn)
Sort(w) ==
    IF Len(w) < 2 THEN w
    ELSE LET r == CountAndMakeRun(w)
         IN  BinaryInsertionSort(r.work, r.run + 1)

----------------------------------------------------------------------------
(* The content roots considered: up to MaxUnits sub-directories, their     *)
(* names taken from DirNames from the first or the second on (cyclically), *)
(* each holding one of the modules.  The order of the entries is of no     *)
(* consequence (the glob delivers the paths in any order), so one order is *)
(* taken for each collection of modules.                                   *)

Roots ==
    { [readable |-> rd,
       entries |-> [i \in 1..Len(ms) |->
                      [name |-> DirNames[((off + i - 1) % Len(DirNames)) + 1],
                       shape |-> "page",
                       module |-> ms[i]]]] :
        rd \in BOOLEAN, off \in {0, 1},
        ms \in {m \in UNION {[1..n -> ModuleIds] : n \in 0..MaxUnits} :
                   \A i \in 1..(Len(m) - 1) : m[i] <= m[i + 1]} }

\* Content roots for the discovery: up to MaxUnits entries out of a list
\* of entries of every shape, among them directories whose names begin with
\* a dot, are in upper case, or hold a space, a private unit, a unit whose
\* import fails and one whose metadata declares a slug.
DiscoveryEntries ==
    << [name |-> <<"a">>, shape |-> "page", module |-> 1],
       [name |-> <<"A">>, shape |-> "page", module |-> 2],
       [name |-> <<".", "c">>, shape |-> "page", module |-> 3],
       [name |-> <<"a", " ", "b">>, shape |-> "page", module |-> 4],
       [name |-> <<"b", ".", "m", "d", "x">>, shape |-> "page", module |-> 7],
       [name |-> <<"e">>, shape |-> "empty"],
       [name |-> <<"n">>, shape |-> "nested", module |-> 1],
       [name |-> <<"p">>, shape |-> "page", module |-> 3],
       [name |-> <<"q">>, shape |-> "page", module |-> 8],
       [name |-> PageMdx, shape |-> "file", module |-> 1] >>

RECURSIVE Pick(_, _, _)
Pick(list, S, i) ==
    IF i > Len(list) THEN <<>>
    ELSE (IF i \in S THEN <<list[i]>> ELSE <<>>) \o Pick(list, S, i + 1)

DiscoveryRoots ==
    { [readable |-> rd, entries |-> Pick(DiscoveryEntries, S, 1)] :
        rd \in BOOLEAN,
        S \in {T \in SUBSET (1..Len(DiscoveryEntries)) : Cardinality(T) <= MaxUnits} }

----------------------------------------------------------------------------
(* The state machine *)

NoResult == [status |-> "none", flag |-> FALSE, value |-> <<>>]

Init ==
    /\ fs \in Roots
    /\ pc = "idle"
    /\ args = <<>>
    /\ includePrivate = FALSE
    /\ articleFilenames = <<>>
    /\ loads = <<>>
    /\ settleOrder = <<>>
    /\ result = <<>>
    /\ lastResult = NoResult
    /\ moduleMap = NoModules

\* Variant: the parameter's default is true.
Parameter_DefaultTrue(as) == IF as = <<>> THEN TRUE ELSE as[1]

\* includePrivate = false (line 30): the parameter takes the default when no
\* argument is passed.
Parameter(as) == IF as = <<>> THEN FALSE ELSE as[1]

InitDiscovery ==
    /\ fs \in DiscoveryRoots
    /\ pc = "idle"
    /\ args = <<>>
    /\ includePrivate = FALSE
    /\ articleFilenames = <<>>
    /\ loads = <<>>
    /\ settleOrder = <<>>
    /\ result = <<>>
    /\ lastResult = NoResult
    /\ moduleMap = NoModules

\* getAllArticles(...as) is called: line 30, up to the await of the glob.
Call(as) ==
    /\ pc = "idle"
    /\ pc' = "globbing"
    /\ args' = as
    /\ includePrivate' = Parameter(as)
    /\ UNCHANGED <<fs, articleFilenames, loads, settleOrder, result, lastResult,
                   moduleMap>>

\* Variant: the glob suppresses scan errors and resolves with no path.
GlobResolve_SuppressErrors ==
    /\ pc = "globbing"
    /\ articleFilenames' \in (IF fs.readable THEN Orders(Glob(fs.entries)) ELSE {<<>>})
    /\ loads' = [i \in 1..Len(articleFilenames') |-> Pending]
    /\ pc' = "loading"
    /\ UNCHANGED <<fs, args, includePrivate, settleOrder, result, lastResult,
                   moduleMap>>

\* The glob resolves (lines 31-33); articleFilenames.map(importArticle)
\* starts one load per path and the call awaits Promise.all (line 35).
GlobResolve ==
    /\ pc = "globbing"
    /\ fs.readable
    /\ articleFilenames' \in Orders(Glob(fs.entries))
    /\ loads' = [i \in 1..Len(Glob(fs.entries)) |-> Pending]
    /\ pc' = "loading"
    /\ UNCHANGED <<fs, args, includePrivate, settleOrder, result, lastResult,
                   moduleMap>>

\* Variant: on a scan error the content root is created anew, empty.
GlobReject_CreatesRoot ==
    /\ pc = "globbing"
    /\ ~fs.readable
    /\ fs' = [readable |-> TRUE, entries |-> <<>>]
    /\ pc' = "failed"
    /\ UNCHANGED <<args, includePrivate, articleFilenames, loads, settleOrder,
                   result, lastResult, moduleMap>>

\* The glob rejects (the content root cannot be read): the await on line 31
\* throws and the call rejects.
GlobReject ==
    /\ pc = "globbing"
    /\ ~fs.readable
    /\ pc' = "failed"
    /\ UNCHANGED <<fs, args, includePrivate, articleFilenames, loads, settleOrder,
                   result, lastResult, moduleMap>>

\* Variant: a rejected load is attempted again.
ImportSettle_Retry(i) ==
    /\ pc \in {"loading", "failed"}
    /\ i \in 1..Len(loads)
    /\ loads[i].state \in {"pending", "rejected"}
    /\ LET found == Linked(fs, moduleMap, articleFilenames[i])
           p == importArticle(found, articleFilenames[i])
       IN  /\ loads' = [loads EXCEPT ![i] = p]
           /\ moduleMap' = Keep(moduleMap, found, articleFilenames[i], p)
    /\ settleOrder' = Append(settleOrder, i)
    /\ UNCHANGED <<fs, pc, args, includePrivate, articleFilenames, result,
                   lastResult>>

\* The load of the i-th path settles (lines 19-27).  Loads still pending
\* when the call has already rejected settle all the same.
ImportSettle(i) ==
    /\ pc \in {"loading", "failed"}
    /\ i \in 1..Len(loads)
    /\ loads[i].state = "pending"
    /\ LET found == Linked(fs, moduleMap, articleFilenames[i])
           p == importArticle(found, articleFilenames[i])
       IN  /\ loads' = [loads EXCEPT ![i] = p]
           /\ moduleMap' = Keep(moduleMap, found, articleFilenames[i], p)
    /\ settleOrder' = Append(settleOrder, i)
    /\ UNCHANGED <<fs, pc, args, includePrivate, articleFilenames, result,
                   lastResult>>

\* Promise.all is fulfilled: lines 35-42 run to the return.
Return ==
    /\ pc = "loading"
    /\ AllFulfilled(loads)
    /\ LET articles == AllValues(loads, settleOrder)
           filteredArticles == Filter(articles, includePrivate)
       IN  result' = Sort(filteredArticles)
    /\ pc' = "returned"
    /\ UNCHANGED <<fs, args, includePrivate, articleFilenames, loads, settleOrder,
                   lastResult, moduleMap>>

\* Variant: the wait for the loads is given up while one is pending.
Throw_OnTimeout ==
    /\ pc = "loading"
    /\ \E i \in 1..Len(loads) : loads[i].state \in {"rejected", "pending"}
    /\ pc' = "failed"
    /\ UNCHANGED <<fs, args, includePrivate, articleFilenames, loads, settleOrder,
                   result, lastResult, moduleMap>>

\* Promise.all is rejected: the await on line 35 throws and the call rejects.
Throw ==
    /\ pc = "loading"
    /\ AllRejected(loads)
    /\ pc' = "failed"
    /\ UNCHANGED <<fs, args, includePrivate, articleFilenames, loads, settleOrder,
                   result, lastResult, moduleMap>>

\* The caller takes the outcome of the call; nothing of the call remains.
Settle ==
    /\ pc \in {"returned", "failed"}
    /\ lastResult' = [status |-> pc, flag |-> includePrivate, value |-> result]
    /\ pc' = "idle"
    /\ args' = <<>>
    /\ includePrivate' = FALSE
    /\ articleFilenames' = <<>>
    /\ loads' = <<>>
    /\ settleOrder' = <<>>
    /\ result' = <<>>
    /\ UNCHANGED <<fs, moduleMap>>

Next ==
    \/ \E as \in {<<>>, <<FALSE>>, <<TRUE>>} : Call(as)
    \/ GlobResolve
    \/ GlobReject
    \/ \E i \in 1..MaxUnits : ImportSettle(i)
    \/ Return
    \/ Throw
    \/ Settle

Spec == Init /\ [][Next]_vars

SpecDiscovery == InitDiscovery /\ [][Next]_vars

\* Content roots that are edited between calls: the sub-directories are the
\* first of DirNames, each holding a module with the older date, with the
\* newer date, or one whose import fails.
EditModules == {1, 2, 7}
EditRoots ==
    { [readable |-> rd,
       entries |-> [i \in 1..Len(ms) |->
                      [name |-> DirNames[i], shape |-> "page", module |-> ms[i]]]] :
        rd \in BOOLEAN,
        ms \in UNION {[1..n -> EditModules] : n \in 0..(MaxUnits - 1)} }

InitEdit ==
    /\ fs \in EditRoots
    /\ pc = "idle"
    /\ args = <<>>
    /\ includePrivate = FALSE
    /\ articleFilenames = <<>>
    /\ loads = <<>>
    /\ settleOrder = <<>>
    /\ result = <<>>
    /\ lastResult = NoResult
    /\ moduleMap = NoModules

\* Content roots for the wait of the call: the sub-directories are some of
\* three, one of which holds a module whose import fails.
JoinEntries ==
    << [name |-> DirNames[1], shape |-> "page", module |-> 1],
       [name |-> DirNames[2], shape |-> "page", module |-> 7],
       [name |-> DirNames[3], shape |-> "page", module |-> 2] >>

JoinRoots ==
    { [readable |-> rd, entries |-> Pick(JoinEntries, S, 1)] :
        rd \in BOOLEAN, S \in SUBSET (1..Len(JoinEntries)) }

InitJoin ==
    /\ fs \in JoinRoots
    /\ pc = "idle"
    /\ args = <<>>
    /\ includePrivate = FALSE
    /\ articleFilenames = <<>>
    /\ loads = <<>>
    /\ settleOrder = <<>>
    /\ result = <<>>
    /\ lastResult = NoResult
    /\ moduleMap = NoModules

\* The continuation of the await on line 35 is a job of the event loop: it
\* runs once Promise.all has settled.  Nothing makes a load settle.
SpecJoin == InitJoin /\ [][Next]_vars /\ WF_vars(Return) /\ WF_vars(Throw)

\* The same, every started load settling in the end.
SpecLoads == SpecJoin /\ \A i \in 1..MaxUnits : WF_vars(ImportSettle(i))

\* Between two calls the author adds or removes sub-directories of the
\* content root or rewrites the page.mdx of some: the content root becomes
\* another one.
Edit ==
    /\ pc = "idle"
    /\ fs' \in EditRoots \ {fs}
    /\ UNCHANGED <<pc, args, includePrivate, articleFilenames, loads, settleOrder,
                   result, lastResult, moduleMap>>

NextEdit ==
    \/ Next
    \/ Edit

SpecEdit == InitEdit /\ [][NextEdit]_vars

----------------------------------------------------------------------------
(* Properties *)

\* The paths the glob matches in the content root, and the module behind
\* the i-th of them.
MatchedPaths == Glob(fs.entries)
UnitModule(i) == ModuleAt(fs, MatchedPaths[i])

\* Number of positions of the sequence w that hold r.
Count(w, r) == Cardinality({i \in 1..Len(w) : w[i] = r})

\* isPrivate of r is falsy: undefined or false.
IsPrivateFalsy(r) == "isPrivate" \notin DOMAIN r \/ r.isPrivate = FALSE

Range(w) == {w[i] : i \in 1..Len(w)}

\* date(a) >= date(b), as numbers: false when either is not a date.
DateGE(a, b) ==
    /\ ~TimeOf(a).nan
    /\ ~TimeOf(b).nan
    /\ TimeOf(a).v >= TimeOf(b).v

\* The public and the full listing, when a call with one flag has returned
\* after a call with the other flag returned.
BothListings ==
    /\ pc = "returned"
    /\ lastResult.status = "returned"
    /\ lastResult.flag # includePrivate
PublicListing == IF includePrivate THEN lastResult.value ELSE result
FullListing == IF includePrivate THEN result ELSE lastResult.value

\* C1: when getAllArticles(false) and getAllArticles(true) have both
\* returned for the content root, every record of the full listing whose
\* isPrivate is falsy occurs in the public listing as many times as in the
\* full one, a private record occurs in it no time, and the public listing
\* holds no other record.
C1_FilterCorrect ==
    BothListings
    => LET pub == PublicListing
           full == FullListing
       IN  /\ \A r \in Range(full) :
                 Count(pub, r) = (IF IsPrivateFalsy(r) THEN Count(full, r) ELSE 0)
           /\ Range(pub) \subseteq Range(full)

\* C1 witness: both listings returned, the full one holds a private record
\* and public ones with and without an isPrivate property.
C1_Witness ==
    /\ BothListings
    /\ Len(PublicListing) = 2
    /\ Len(FullListing) = 3
    /\ \E r \in Range(PublicListing) : "isPrivate" \notin DOMAIN r
    /\ \E r \in Range(PublicListing) : "isPrivate" \in DOMAIN r

\* C2: in every returned sequence each adjacent pair (a, b) has
\* date(a) >= date(b).
C2_SortedNewestFirst ==
    pc = "returned"
    => \A i \in 1..(Len(result) - 1) : DateGE(result[i], result[i + 1])

\* The sequence the call returns when the paths are loaded one after
\* another in the order of articleFilenames.
SequentialArticles ==
    [i \in 1..Len(articleFilenames) |-> importArticle(fs, articleFilenames[i]).value]

\* C3: the returned sequence is the one determined by the content root, the
\* paths as the glob delivered them and the flag, in whatever order the
\* loads settled.
C3_InterleavingIndependent ==
    pc = "returned"
    => result = Sort(Filter(SequentialArticles, includePrivate))

\* C3 witness: a call returned two records of the same instant after its
\* loads settled in the reverse of the order they were started in.
C3_Witness ==
    /\ pc = "returned"
    /\ Len(settleOrder) >= 2
    /\ settleOrder[1] > settleOrder[2]
    /\ Len(result) >= 2
    /\ ~TimeOf(result[1]).nan
    /\ TimeOf(result[1]) = TimeOf(result[2])

\* C4: when the import of a matched unit fails, no call on that content
\* root returns: the call never reaches its return and no call's outcome
\* is a sequence, whatever the other units loaded.
C4_ImportFailureFailsCall ==
    (fs.readable /\ \E i \in 1..Len(MatchedPaths) : UnitModule(i).outcome = "fail")
    => /\ pc # "returned"
       /\ result = <<>>
       /\ lastResult.status # "returned"

\* C4 witness: the call has failed on a rejected import while another
\* unit's load was fulfilled.
C4_Witness ==
    /\ pc = "failed"
    /\ \E i \in 1..Len(loads) : loads[i].state = "rejected"
    /\ \E i \in 1..Len(loads) : loads[i].state = "fulfilled"
    /\ result = <<>>

\* The i-th matched unit is well formed: it imports, exports `article`, and
\* the metadata has a date.
WellFormed(i) ==
    /\ UnitModule(i).outcome = "ok"
    /\ UnitModule(i).hasArticle
    /\ "date" \in DOMAIN UnitModule(i).article

\* C5: when a matched unit imports but has no `article` export (all other
\* units being well formed), the call does not return a sequence.
C5_MissingExportFailsCall ==
    (/\ fs.readable
     /\ \E i \in 1..Len(MatchedPaths) :
          /\ UnitModule(i).outcome = "ok"
          /\ ~UnitModule(i).hasArticle
          /\ \A j \in 1..Len(MatchedPaths) : j # i => WellFormed(j))
    => /\ pc # "returned"
       /\ lastResult.status # "returned"

\* C6: when exactly one matched unit declares metadata without a date (all
\* other units being well formed), the call does not return a sequence and
\* no record is returned.
C6_MissingDateFailsCall ==
    (/\ fs.readable
     /\ \E i \in 1..Len(MatchedPaths) :
          /\ UnitModule(i).outcome = "ok"
          /\ UnitModule(i).hasArticle
          /\ "date" \notin DOMAIN UnitModule(i).article
          /\ \A j \in 1..Len(MatchedPaths) : j # i => WellFormed(j))
    => /\ pc # "returned"
       /\ result = <<>>
       /\ lastResult.status # "returned"

\* C7: when the glob matches no path, no load is started, the call never
\* fails, its wait for the loads is over at once, and what it returns is
\* the empty sequence, for either flag.
C7_EmptyRoot ==
    (fs.readable /\ MatchedPaths = <<>>)
    => /\ pc # "failed"
       /\ loads = <<>>
       /\ settleOrder = <<>>
       /\ result = <<>>
       /\ (pc = "loading" => ENABLED Return)
       /\ lastResult.status # "failed"

\* C7 witness: on an empty, readable content root a call with each flag
\* has returned the empty sequence.
C7_Witness ==
    /\ fs.readable
    /\ fs.entries = <<>>
    /\ pc = "returned"
    /\ result = <<>>
    /\ lastResult.status = "returned"
    /\ lastResult.flag # includePrivate
    /\ lastResult.value = <<>>

\* C8: when the content root cannot be read, the call never gets to start
\* a load, never returns, and no record is returned.
C8_UnreadableRoot ==
    ~fs.readable
    => /\ pc \in {"idle", "globbing", "failed"}
       /\ loads = <<>>
       /\ settleOrder = <<>>
       /\ articleFilenames = <<>>
       /\ result = <<>>
       /\ lastResult.status # "returned"

\* C8 witness: the call has failed on an unreadable content root that holds
\* units.
C8_Witness ==
    /\ ~fs.readable
    /\ Len(fs.entries) >= 2
    /\ pc = "failed"
    /\ loads = <<>>

\* C9: a call with includePrivate = true that returns, returns as many
\* records as there are matched paths, each path's record as many times as
\* it was loaded.
C9_OneRecordPerPath ==
    (pc = "returned" /\ includePrivate)
    => LET vals == [i \in 1..Len(loads) |-> loads[i].value]
       IN  /\ Len(result) = Len(MatchedPaths)
           /\ \A i \in 1..Len(vals) : Count(result, vals[i]) = Count(vals, vals[i])

\* C9 witness: a full listing of three records, one of them private.
C9_Witness ==
    /\ pc = "returned"
    /\ includePrivate
    /\ Len(result) = 3
    /\ \E i \in 1..Len(result) : ~IsPrivateFalsy(result[i])
    /\ \E i \in 1..Len(result) : IsPrivateFalsy(result[i])

\* C10: the slug importArticle derives for <dir>/page.mdx is <dir>, the
\* name of a sub-directory of the content root (seen in the record of every
\* unit whose metadata declares no slug of its own).
C10_SlugIsDirectory ==
    \A i \in 1..Len(loads) :
        (/\ loads[i].state = "fulfilled"
         /\ "slug" \notin DOMAIN ModuleAt(fs, articleFilenames[i]).article)
        => /\ loads[i].value.slug \o SlashPageMdx = articleFilenames[i]
           /\ \E k \in 1..Len(fs.entries) : fs.entries[k].name = loads[i].value.slug

\* C10 witness: the units in the directories named page and b.mdx have
\* been loaded, with those names as slugs.
C10_Witness ==
    /\ \E i \in 1..Len(loads) :
         loads[i].state = "fulfilled" /\ loads[i].value.slug = DirNames[2]
    /\ \E i \in 1..Len(loads) :
         loads[i].state = "fulfilled" /\ loads[i].value.slug = DirNames[3]

\* The metadata the unit behind the i-th path of the call declares.
Declared(i) == ModuleAt(fs, articleFilenames[i]).article

\* The values of the call's loads, by index.
LoadValues == [i \in 1..Len(loads) |-> loads[i].value]

\* C11: in every returned sequence the slugs of the records are pairwise
\* different.
C11_SlugsUnique ==
    pc = "returned"
    => \A i, j \in 1..Len(result) : i # j => result[i].slug # result[j].slug

\* C12: a call that returns after a call with the same flag returned on the
\* same content root, returns the same sequence, in the same order.
C12_RepeatedCallsIdentical ==
    (/\ pc = "returned"
     /\ lastResult.status = "returned"
     /\ lastResult.flag = includePrivate)
    => result = lastResult.value

\* C13: a unit whose metadata has no isPrivate, like one whose isPrivate is
\* false, has its record in the returned sequence, whatever the flag.
C13_AbsentIsPrivateIsPublic ==
    pc = "returned"
    => \A i \in 1..Len(loads) :
          ("isPrivate" \notin DOMAIN Declared(i) \/ Declared(i).isPrivate = FALSE)
          => Count(result, loads[i].value) = Count(LoadValues, loads[i].value)

\* C13 witness: a call with includePrivate = false returned a record
\* without isPrivate and one with isPrivate = false, and dropped a private one.
C13_Witness ==
    /\ pc = "returned"
    /\ ~includePrivate
    /\ Len(result) < Len(loads)
    /\ \E i \in 1..Len(result) : "isPrivate" \notin DOMAIN result[i]
    /\ \E i \in 1..Len(result) :
         "isPrivate" \in DOMAIN result[i] /\ result[i].isPrivate = FALSE

\* C14: a call without argument runs with includePrivate = false and returns
\* what the sort of the public records gives, with no private record; the
\* parameter is true only when true was passed.
C14_DefaultExcludesPrivate ==
    /\ (pc # "idle" /\ args = <<>>) => ~includePrivate
    /\ (pc # "idle" /\ includePrivate) => args = <<TRUE>>
    /\ (pc = "returned" /\ args = <<>>)
       => /\ result = Sort(Filter(SequentialArticles, FALSE))
          /\ \A i \in 1..Len(result) : IsPrivateFalsy(result[i])

\* C14 witness: a call without argument returned, leaving out a private
\* record.
C14_Witness ==
    /\ pc = "returned"
    /\ args = <<>>
    /\ Len(result) >= 1
    /\ \E i \in 1..Len(loads) : ~IsPrivateFalsy(loads[i].value)

\* The glob of the call has resolved.
Globbed == pc \in {"loading", "returned"} \/ (pc = "failed" /\ fs.readable)

IsPrefix(t, w) == Len(t) <= Len(w) /\ SubSeq(w, 1, Len(t)) = t

\* C15: a sub-directory without page.mdx, a page.mdx lying in the root and
\* a page.mdx two levels down give no path and no error: on a readable root
\* the glob does not reject, no matched path lies in or is such an entry,
\* and there are as many paths as there are sub-directories (not beginning
\* with a dot) that hold page.mdx directly.
C15_OnlyImmediateEntryFiles ==
    /\ fs.readable => ~ENABLED GlobReject
    /\ (fs.readable /\ pc = "globbing") => ENABLED GlobResolve
    /\ Globbed =>
         /\ \A k \in 1..Len(fs.entries) :
               fs.entries[k].shape \in {"empty", "nested", "file"}
               => \A i \in 1..Len(articleFilenames) :
                     ~IsPrefix(fs.entries[k].name, articleFilenames[i])
         /\ Len(articleFilenames) =
               Cardinality({k \in 1..Len(fs.entries) :
                              /\ fs.entries[k].shape = "page"
                              /\ Head(fs.entries[k].name) # "."})

\* C15 witness: a call returned the one record of a root that also holds
\* two entries of the shapes that do not match.
C15_Witness ==
    /\ pc = "returned"
    /\ Len(result) = 1
    /\ Len(fs.entries) = 3
    /\ Cardinality({k \in 1..Len(fs.entries) :
                      fs.entries[k].shape \in {"empty", "nested", "file"}}) = 2

\* C16 as stated: every sub-directory that holds page.mdx is matched,
\* whatever its name.
C16_AnyNameMatched ==
    Globbed
    => \A k \in 1..Len(fs.entries) :
          fs.entries[k].shape = "page"
          => \E i \in 1..Len(articleFilenames) :
                articleFilenames[i] = fs.entries[k].name \o SlashPageMdx

\* C16 amended: every sub-directory that holds page.mdx and whose name does
\* not begin with a dot is matched, whatever else its name is.
C16_AnyNonDotNameMatched ==
    Globbed
    => \A k \in 1..Len(fs.entries) :
          (fs.entries[k].shape = "page" /\ Head(fs.entries[k].name) # ".")
          => \E i \in 1..Len(articleFilenames) :
                articleFilenames[i] = fs.entries[k].name \o SlashPageMdx

\* C16 witness: the glob resolved on a root with the directories A and .c,
\* both holding page.mdx; A is matched and .c is not.
C16_Witness ==
    /\ Globbed
    /\ \E k \in 1..Len(fs.entries) : fs.entries[k] = DiscoveryEntries[3]
    /\ \E i \in 1..Len(articleFilenames) :
         articleFilenames[i] = <<"A">> \o SlashPageMdx
    /\ \A i \in 1..Len(articleFilenames) : Head(articleFilenames[i]) # "."

\* The outcome of loading the paths one after another, in the order of
\* articleFilenames, stopping at the first load that fails.
RECURSIVE SequentialFrom(_, _)
SequentialFrom(i, acc) ==
    IF i > Len(articleFilenames)
    THEN [status |-> "returned", value |-> Sort(Filter(acc, includePrivate))]
    ELSE LET p == importArticle(fs, articleFilenames[i])
         IN  IF p.state = "rejected"
             THEN [status |-> "failed", value |-> <<>>]
             ELSE SequentialFrom(i + 1, Append(acc, p.value))

\* C17: the call ends as the sequential loading of its paths ends: with the
\* same sequence when that returns, failed when that fails; and once all
\* its loads have settled the join is fulfilled or rejected, so the call is
\* not left waiting.
C17_SequentialEquivalent ==
    /\ (Globbed /\ pc \in {"returned", "failed"})
       => LET s == SequentialFrom(1, <<>>)
          IN  s.status = pc /\ s.value = result
    /\ (pc = "loading" /\ Len(settleOrder) = Len(loads))
       => (AllFulfilled(loads) \/ AllRejected(loads))

\* C17 witness: the call failed on the load of a later path that settled
\* first, the first path's load being fulfilled after it.
C17_Witness ==
    /\ pc = "failed"
    /\ Len(settleOrder) >= 2
    /\ settleOrder[1] > 1
    /\ loads[settleOrder[1]].state = "rejected"
    /\ loads[1].state = "fulfilled"

\* C18: no step of a call changes the content root.
C18_FsUnchanged == [][fs' = fs]_vars

\* C18 witness: two calls have completed on a root with three units, the
\* second one returning.
C18_Witness ==
    /\ pc = "returned"
    /\ lastResult.status = "returned"
    /\ Len(result) = 3

\* The characters that need no escaping in a URL path segment.
Unreserved ==
    {"a", "b", "c", "d", "e", "g", "m", "n", "p", "s", "u", "x", "A",
     "-", ".", "_", "~"}
UrlSafe(w) == \A i \in 1..Len(w) : w[i] \in Unreserved

\* C19: the slug of every record is URL-safe.
C19_SlugUrlSafe ==
    \A i \in 1..Len(loads) :
        loads[i].state = "fulfilled" => UrlSafe(loads[i].value.slug)

FreshArticles ==
    [i \in 1..Len(articleFilenames) |-> importArticle(fs, articleFilenames[i])]

\* C24: a call reflects the content root as it is at the call, whatever
\* earlier calls loaded: its paths are those the glob matches in the
\* content root now, it returns only if every file as it is now loads, and
\* what it returns is the listing of the records of the files as they are
\* now.
C24_FreshOnEveryCall ==
    (pc \in {"loading", "returned"}
        => Range(articleFilenames) = Range(MatchedPaths))
    /\ (pc = "returned"
        => /\ \A i \in 1..Len(articleFilenames) :
                 FreshArticles[i].state = "fulfilled"
           /\ result = Sort(Filter([i \in 1..Len(articleFilenames) |->
                                       FreshArticles[i].value],
                                   includePrivate)))

\* C21: a call that returned a sequence had one load per path, and every
\* one of them had been fulfilled when the filter and the sort ran: none
\* is pending in the state the call returned in.
C21_JoinedBeforeFilter ==
    pc = "returned"
    => /\ Len(loads) = Len(articleFilenames)
       /\ Len(settleOrder) = Len(loads)
       /\ \A i \in 1..Len(loads) : loads[i].state = "fulfilled"

\* C21 witness: a call returned three records, the load started last
\* having settled first.
C21_Witness ==
    /\ pc = "returned"
    /\ Len(loads) = 3
    /\ Len(result) = 3
    /\ settleOrder[1] = 3

\* C22: once a load of the call is rejected, the waiting call fails, without
\* any other load having to settle.
C22_FailsFast ==
    (pc = "loading" /\ \E i \in 1..Len(loads) : loads[i].state = "rejected")
        ~> (pc = "failed")

\* C22 witness: the call failed on the first load that settled while the
\* other was pending.
C22_Witness ==
    /\ pc = "failed"
    /\ Len(loads) = 2
    /\ Len(settleOrder) = 1
    /\ loads[settleOrder[1]].state = "rejected"

\* C30: a call waiting for its loads completes, returning or failing, when
\* every load settles; and it leaves the wait only for a join that is
\* fulfilled or rejected, never while a load is pending and none rejected.
C30_CompletesWhenLoadsSettle ==
    /\ (pc = "loading") ~> (pc \in {"returned", "failed"})
    /\ [][(pc = "loading" /\ pc' # "loading")
            => \/ \A i \in 1..Len(loads) : loads[i].state = "fulfilled"
               \/ \E i \in 1..Len(loads) : loads[i].state = "rejected"]_vars

\* C30 witness: the call waits on one pending load, the other fulfilled.
C30_Witness ==
    /\ pc = "loading"
    /\ Len(loads) = 2
    /\ Len(settleOrder) = 1
    /\ loads[settleOrder[1]].state = "fulfilled"

\* C23: once the glob has resolved there is one load per path, each matched
\* path is among the call's paths exactly once, and each load has settled
\* once if it is no longer pending and not at all if it is.
C23_EachUnitLoadedOnce ==
    Globbed
    => /\ Len(loads) = Len(articleFilenames)
       /\ Len(articleFilenames) = Len(MatchedPaths)
       /\ \A p \in Range(MatchedPaths) : Count(articleFilenames, p) = 1
       /\ \A i \in 1..Len(loads) :
             Count(settleOrder, i) = (IF loads[i].state = "pending" THEN 0 ELSE 1)

\* C23 witness: a call of three loads failed, the load that settled first
\* was rejected and all three have settled since.
C23_Witness ==
    /\ pc = "failed"
    /\ Len(loads) = 3
    /\ Len(settleOrder) = 3
    /\ loads[settleOrder[1]].state = "rejected"

\* The metadata fields of the Article interface (lines 3-10).
ArticleFields ==
    {"title", "description", "author", "date", "isFeatured", "isPrivate"}

\* r with isFeatured negated, where it has one.
FlipFeatured(r) ==
    IF "isFeatured" \in DOMAIN r THEN [r EXCEPT !.isFeatured = ~@] ELSE r

\* C25: the record of every fulfilled load has the fields its unit declares,
\* with the declared values, and the slug besides; the returned records are
\* records of the loads; and with every isFeatured negated the call would
\* return the same records in the same order.
C25_MetadataCarriedThrough ==
    /\ \A i \in 1..Len(loads) :
          loads[i].state = "fulfilled"
          => /\ DOMAIN loads[i].value = DOMAIN Declared(i) \cup {"slug"}
             /\ \A k \in ArticleFields \cap DOMAIN Declared(i) :
                   loads[i].value[k] = Declared(i)[k]
    /\ pc = "returned"
       => /\ Range(result) \subseteq Range(LoadValues)
          /\ Sort(Filter([i \in 1..Len(loads) |-> FlipFeatured(LoadValues[i])],
                         includePrivate))
                = [i \in 1..Len(result) |-> FlipFeatured(result[i])]

\* C25 witness: the full listing returned with a private record, a record
\* without isPrivate and records that differ in isFeatured.
C25_Witness ==
    /\ pc = "returned"
    /\ includePrivate
    /\ Len(result) = 3
    /\ \E i \in 1..3 : "isPrivate" \in DOMAIN result[i] /\ result[i].isPrivate
    /\ \E i \in 1..3 : "isPrivate" \notin DOMAIN result[i]
    /\ \E i, j \in 1..3 :
          /\ "isFeatured" \in DOMAIN result[i]
          /\ "isFeatured" \in DOMAIN result[j]
          /\ result[i].isFeatured # result[j].isFeatured

\* C26: the slug of the record of every load, and so of every returned
\* record, is the one derived from the load's path.
C26_DerivedSlugWins ==
    /\ \A i \in 1..Len(loads) :
          loads[i].state = "fulfilled"
          => loads[i].value.slug = Replace(articleFilenames[i])
    /\ pc = "returned"
       => \A r \in Range(result) :
             \E i \in 1..Len(articleFilenames) :
                r.slug = Replace(articleFilenames[i])

\* C27: when a call with each flag has returned, the public listing is the
\* full listing with its private records removed, in the same order.
C27_PublicIsSubsequenceOfFull ==
    BothListings
    => PublicListing = SelectSeq(FullListing, IsPrivateFalsy)

\* Metadata a private unit may declare instead of its own: other title,
\* description, author, date and isFeatured, or some of them missing.
PrivateMetadata ==
    { [title |-> "T3", description |-> "D3", author |-> "A3",
       date |-> "2025-04-24", isFeatured |-> TRUE, isPrivate |-> TRUE],
      [title |-> "T9", description |-> "D9", author |-> "A9",
       date |-> "2024-01-01", isFeatured |-> FALSE, isPrivate |-> TRUE],
      [title |-> "T9", isFeatured |-> FALSE, isPrivate |-> TRUE] }

\* The indices of the loads of private units.
PrivateLoads ==
    {i \in 1..Len(loads) :
        "isPrivate" \in DOMAIN loads[i].value /\ loads[i].value.isPrivate}

\* The records the loads give when the private units declare the metadata
\* v assigns them.
VariantArticles(v) ==
    [i \in 1..Len(loads) |->
        IF i \in PrivateLoads
        THEN Spread([slug |-> Replace(articleFilenames[i])], v[i])
        ELSE loads[i].value]

\* C28: what getAllArticles(false) returns is what it returns, for the same
\* paths, on every content root that differs in the metadata of the
\* private units only.
C28_PrivateMetadataIrrelevant ==
    (pc = "returned" /\ ~includePrivate)
    => \A v \in [PrivateLoads -> PrivateMetadata] :
          Sort(Filter(VariantArticles(v), FALSE)) = result

\* C28 witness: the public listing returned two records on a content root
\* with a private unit.
C28_Witness ==
    /\ pc = "returned"
    /\ ~includePrivate
    /\ PrivateLoads # {}
    /\ Len(result) = 2

\* A matched unit's import fails.
HasFailing == \E i \in 1..Len(MatchedPaths) : UnitModule(i).outcome = "fail"

\* C29: on a readable content root with a unit whose import fails, every
\* call ends failed, and on one with none every call ends returned, in
\* whatever order the loads settle; once all have settled the join is
\* rejected in the first case and fulfilled in the second.
C29_OutcomeIndependentOfTiming ==
    fs.readable
    => /\ pc = "returned" => ~HasFailing
       /\ pc = "failed" => HasFailing
       /\ lastResult.status = "returned" => ~HasFailing
       /\ lastResult.status = "failed" => HasFailing
       /\ (pc = "loading" /\ Len(settleOrder) = Len(loads))
          => IF HasFailing THEN AllRejected(loads) ELSE AllFulfilled(loads)

\* C29 witness: the call failed on a rejection that came after two loads
\* had been fulfilled.
C29_Witness ==
    /\ pc = "failed"
    /\ Len(settleOrder) = 3
    /\ loads[settleOrder[1]].state = "fulfilled"
    /\ loads[settleOrder[2]].state = "fulfilled"
    /\ loads[settleOrder[3]].state = "rejected"

====
